---- MODULE Spec2Model ----
(***************************************************************************)
(* Atoll: the request builder (rpc_requests.rs), the dispatch              *)
(* (RpcRequest::request, RpcMethod::parse), the outcome discriminator      *)
(* (RpcMethod::is_ok_or) and the error unification (errors.rs).            *)
(***************************************************************************)
EXTENDS Integers, Sequences, FiniteSets, TLC

VARIABLES
    phase,          \* which step of the operation under study has run
    response_body,  \* is_ok_or: the &str handed to the discriminator
    expected,       \* is_ok_or: the type parameter T
    self_method,    \* is_ok_or: the RpcMethod it is called on
    outcome,        \* is_ok_or: its AtollResult<RequestOutcome<T>>
    builder,        \* the RpcRequest being built
    calls,          \* the builder calls made so far, in order
    json_body,      \* request: the serialized envelope
    minreq_errors,  \* From<minreq::Error>: two transport errors
    atoll_errors,   \* From<minreq::Error>: what the two are mapped to
    request,        \* request: the RpcRequest it consumes (self)
    sends,          \* request: how many times http_client.send() was started
    exchange,       \* request: the offloaded HTTP exchange and what it gave
    is_ok_or_calls, \* parse: how many times the discriminator was invoked
    call_result,    \* request: what the call returned to its caller
    futures         \* the calls of request running side by side, each with its own state

discVars == <<response_body, expected, self_method, outcome>>
buildVars == <<builder, calls, json_body>>
errVars == <<minreq_errors, atoll_errors>>
callVars == <<request, sends, exchange, is_ok_or_calls, call_result>>
concVars == <<futures>>
vars == <<phase, discVars, buildVars, errVars, callVars, concVars>>

\* ------------------------------------------------------------------ bounds

\* Most members (key/value pairs) of a response body in the discriminator runs.
MaxMembers == 4

\* Most builder calls made on one RpcRequest before it is sealed.
MaxCalls == 3

\* Most members of a response body in the dispatch runs.
MaxResponseMembers == 3

\* ------------------------------------------------------------- JSON values

JNull == [t |-> "null"]
JNum(n) == [t |-> "num", n |-> n]
JStr(s) == [t |-> "str", s |-> s]
JObj(ms) == [t |-> "obj", m |-> ms]
JArr(xs) == [t |-> "arr", a |-> xs]

\* "no value yet", for a field of a struct being deserialized or a builder field
Absent == [t |-> "absent"]

\* rpc_methods.rs: enum RpcMethod
RpcMethod == {"GetAccountInfo", "GetBalance", "GetBlock", "GetBlockHeight"}

\* the variants of RpcMethod in the order the enum declares them
RpcMethodVariants == <<"GetAccountInfo", "GetBalance", "GetBlock", "GetBlockHeight">>

\* The payload types T the discriminator is instantiated with here: a plain
\* number and an optional number (Option<u64>).
PayloadTypes == {"u64", "Option<u64>"}

\* Decoded Rust values
RU64(n) == [ty |-> "u64", n |-> n]
RNone == [ty |-> "None"]
RSome(x) == [ty |-> "Some", x |-> x]
RString(s) == [ty |-> "String", s |-> s]
RInt(w, n) == [ty |-> w, n |-> n]

\* Result<_, serde error>
DeOk(v) == [ok |-> TRUE, v |-> v]
DeErr(kind, what) == [ok |-> FALSE, kind |-> kind, what |-> what]

\* ------------------------------------------------- serde leaf deserializers

U8Max == 255
I16Min == -32768
I16Max == 32767

DeString(v) ==
    IF v.t = "str" THEN DeOk(RString(v.s)) ELSE DeErr("invalid type", v.t)

DeU8(v) ==
    IF v.t # "num" THEN DeErr("invalid type", v.t)
    ELSE IF v.n >= 0 /\ v.n <= U8Max THEN DeOk(RInt("u8", v.n))
    ELSE DeErr("invalid value", "u8")

DeI16(v) ==
    IF v.t # "num" THEN DeErr("invalid type", v.t)
    ELSE IF v.n >= I16Min /\ v.n <= I16Max THEN DeOk(RInt("i16", v.n))
    ELSE DeErr("invalid value", "i16")

DeU64(v) ==
    IF v.t # "num" THEN DeErr("invalid type", v.t)
    ELSE IF v.n >= 0 THEN DeOk(RU64(v.n))
    ELSE DeErr("invalid value", "u64")

\* (mutant) a JsonError without its data field: data is never kept
DeOptStringDropped(v) ==
    IF v.t \in {"null", "str"} THEN DeOk(RNone) ELSE DeErr("invalid type", v.t)

\* Option<String>: null is None, anything else must be a string
DeOptString(v) ==
    IF v.t = "null" THEN DeOk(RNone)
    ELSE IF v.t = "str" THEN DeOk(RSome(RString(v.s)))
    ELSE DeErr("invalid type", v.t)

\* (mutant) an optional payload read as a mandatory one: null is refused
DeTNoNull(T, v) ==
    IF T = "u64" THEN DeU64(v)
    ELSE IF DeU64(v).ok THEN DeOk(RSome(DeU64(v).v))
    ELSE DeU64(v)

\* T::deserialize for the payload types
DeT(T, v) ==
    IF T = "u64" THEN DeU64(v)
    ELSE IF v.t = "null" THEN DeOk(RNone)
    ELSE IF DeU64(v).ok THEN DeOk(RSome(DeU64(v).v))
    ELSE DeU64(v)

\* serde's missing_field for a field of type T: an Option is None, anything
\* else is the error
MissingT(T, field) ==
    IF T = "Option<u64>" THEN DeOk(RNone) ELSE DeErr("missing field", field)

\* ------------------------------------------------------- response bodies

\* A response body is the text of a JSON object, given by its members in the
\* order they appear in the text, and how the text ends:
\*   "object"     the object is closed and the text ends
\*   "trailing"   the object is closed and other characters follow
\*   "truncated"  the text stops after the last member, the object unclosed
\*   "empty"      the text is "" (no members)
Key(m) == m[1]
Val(m) == m[2]

Diag(path, kind, what, at) == [path |-> path, kind |-> kind, what |-> what, at |-> at]
Parsed(v) == [ok |-> TRUE, v |-> v]
Failed(d) == [ok |-> FALSE, diag |-> d]

\* rpc_requests.rs: struct JsonError { code: i16, message: String, data: Option<String> }
\* (the derived visitor: members in text order, a repeated key refused, unknown
\* keys skipped, missing fields reported when the object ends)
RECURSIVE ScanJsonError(_, _, _, _)
ScanJsonError(ms, i, acc, at) ==
    IF i > Len(ms) THEN
        IF acc.code = Absent THEN Failed(Diag("error", "missing field", "code", at))
        ELSE IF acc.message = Absent THEN Failed(Diag("error", "missing field", "message", at))
        ELSE Parsed([code |-> acc.code, message |-> acc.message,
                     data |-> IF acc.data = Absent THEN RNone ELSE acc.data])
    ELSE LET k == Key(ms[i])
             v == Val(ms[i])
         IN  IF k = "code" THEN
                 IF acc.code # Absent THEN Failed(Diag("error", "duplicate field", "code", at))
                 ELSE IF ~DeI16(v).ok THEN Failed(Diag("error.code", DeI16(v).kind, DeI16(v).what, at))
                 ELSE ScanJsonError(ms, i + 1, [acc EXCEPT !.code = DeI16(v).v], at)
             ELSE IF k = "message" THEN
                 IF acc.message # Absent THEN Failed(Diag("error", "duplicate field", "message", at))
                 ELSE IF ~DeString(v).ok THEN Failed(Diag("error.message", DeString(v).kind, DeString(v).what, at))
                 ELSE ScanJsonError(ms, i + 1, [acc EXCEPT !.message = DeString(v).v], at)
             ELSE IF k = "data" THEN
                 IF acc.data # Absent THEN Failed(Diag("error", "duplicate field", "data", at))
                 ELSE IF ~DeOptString(v).ok THEN Failed(Diag("error.data", DeOptString(v).kind, DeOptString(v).what, at))
                 ELSE ScanJsonError(ms, i + 1, [acc EXCEPT !.data = DeOptString(v).v], at)
             ELSE ScanJsonError(ms, i + 1, acc, at)

DeJsonError(v, at) ==
    IF v.t # "obj" THEN Failed(Diag("error", "invalid type", v.t, at))
    ELSE ScanJsonError(v.m, 1, [code |-> Absent, message |-> Absent, data |-> Absent], at)

\* (mutant) an unclosed object is taken as closed
AtEndLenient(body, done) == done

\* How the text ends, seen by a struct visitor that has read every member
AtEnd(body, done) ==
    IF body.form = "truncated"
    THEN Failed(Diag("", "EOF while parsing an object", "", Len(body.members) + 1))
    ELSE done

\* rpc_requests.rs: struct RpcResponse<T> { jsonrpc: String, id: u8, result: T }
RECURSIVE ScanRpcResponse(_, _, _, _)
ScanRpcResponse(T, body, i, acc) ==
    IF i > Len(body.members) THEN
        AtEnd(body,
            IF acc.jsonrpc = Absent THEN Failed(Diag("", "missing field", "jsonrpc", i))
            ELSE IF acc.id = Absent THEN Failed(Diag("", "missing field", "id", i))
            ELSE IF acc.result # Absent THEN Parsed(acc)
            ELSE IF MissingT(T, "result").ok
                 THEN Parsed([acc EXCEPT !.result = MissingT(T, "result").v])
            ELSE Failed(Diag("", "missing field", "result", i)))
    ELSE LET k == Key(body.members[i])
             v == Val(body.members[i])
         IN  IF k = "jsonrpc" THEN
                 IF acc.jsonrpc # Absent THEN Failed(Diag("", "duplicate field", "jsonrpc", i))
                 ELSE IF ~DeString(v).ok THEN Failed(Diag("jsonrpc", DeString(v).kind, DeString(v).what, i))
                 ELSE ScanRpcResponse(T, body, i + 1, [acc EXCEPT !.jsonrpc = DeString(v).v])
             ELSE IF k = "id" THEN
                 IF acc.id # Absent THEN Failed(Diag("", "duplicate field", "id", i))
                 ELSE IF ~DeU8(v).ok THEN Failed(Diag("id", DeU8(v).kind, DeU8(v).what, i))
                 ELSE ScanRpcResponse(T, body, i + 1, [acc EXCEPT !.id = DeU8(v).v])
             ELSE IF k = "result" THEN
                 IF acc.result # Absent THEN Failed(Diag("", "duplicate field", "result", i))
                 ELSE IF ~DeT(T, v).ok THEN Failed(Diag("result", DeT(T, v).kind, DeT(T, v).what, i))
                 ELSE ScanRpcResponse(T, body, i + 1, [acc EXCEPT !.result = DeT(T, v).v])
             ELSE ScanRpcResponse(T, body, i + 1, acc)

\* rpc_requests.rs: struct RpcJsonError { jsonrpc: String, id: u8, error: JsonError }
RECURSIVE ScanRpcJsonError(_, _, _)
ScanRpcJsonError(body, i, acc) ==
    IF i > Len(body.members) THEN
        AtEnd(body,
            IF acc.jsonrpc = Absent THEN Failed(Diag("", "missing field", "jsonrpc", i))
            ELSE IF acc.id = Absent THEN Failed(Diag("", "missing field", "id", i))
            ELSE IF acc.error = Absent THEN Failed(Diag("", "missing field", "error", i))
            ELSE Parsed(acc))
    ELSE LET k == Key(body.members[i])
             v == Val(body.members[i])
         IN  IF k = "jsonrpc" THEN
                 IF acc.jsonrpc # Absent THEN Failed(Diag("", "duplicate field", "jsonrpc", i))
                 ELSE IF ~DeString(v).ok THEN Failed(Diag("jsonrpc", DeString(v).kind, DeString(v).what, i))
                 ELSE ScanRpcJsonError(body, i + 1, [acc EXCEPT !.jsonrpc = DeString(v).v])
             ELSE IF k = "id" THEN
                 IF acc.id # Absent THEN Failed(Diag("", "duplicate field", "id", i))
                 ELSE IF ~DeU8(v).ok THEN Failed(Diag("id", DeU8(v).kind, DeU8(v).what, i))
                 ELSE ScanRpcJsonError(body, i + 1, [acc EXCEPT !.id = DeU8(v).v])
             ELSE IF k = "error" THEN
                 IF acc.error # Absent THEN Failed(Diag("", "duplicate field", "error", i))
                 ELSE IF ~DeJsonError(v, i).ok THEN DeJsonError(v, i)
                 ELSE ScanRpcJsonError(body, i + 1, [acc EXCEPT !.error = DeJsonError(v, i).v])
             ELSE ScanRpcJsonError(body, i + 1, acc)

NoFields3(a, b, c) == [x \in {a, b, c} |-> Absent]

\* serde_path_to_error::deserialize(&mut Deserializer::from_str(body)):
\* the value is read and the path of the failure recorded; what follows the
\* value in the text is not looked at.
PathDeserializeRpcResponse(T, body) ==
    IF body.form = "empty"
    THEN Failed(Diag("", "EOF while parsing a value", "", 0))
    ELSE ScanRpcResponse(T, body, 1, NoFields3("jsonrpc", "id", "result"))

\* serde_json::from_str::<RpcJsonError>(body): the value is read, without a
\* path, and the text must end after it.
FromStrRpcJsonError(body) ==
    IF body.form = "empty"
    THEN Failed(Diag("", "EOF while parsing a value", "", 0))
    ELSE LET r == ScanRpcJsonError(body, 1, NoFields3("jsonrpc", "id", "error"))
         IN  IF ~r.ok THEN Failed([r.diag EXCEPT !.path = ""])
             ELSE IF body.form = "trailing"
                  THEN Failed(Diag("", "trailing characters", "", Len(body.members) + 1))
             ELSE r

\* Display of serde_path_to_error::Error: the path, when there is one, then the
\* serde_json message with its position
PathErrorToString(d) == <<d.path, d.kind, d.what, d.at>>

\* errors.rs: AtollError, AtollResult
Ok(v) == [tag |-> "Ok", v |-> v]
Err(e) == [tag |-> "Err", e |-> e]
SerdeJsonDeser(msg) == [variant |-> "SerdeJsonDeser", msg |-> msg]
Http(minreq) == [variant |-> "Http", inner |-> minreq]
Utilities(e) == [variant |-> "Utilities", inner |-> e]

\* errors.rs: enum Minreq
MinreqUnit(kind) == [kind |-> kind]
MinreqString(kind, str) == [kind |-> kind, s |-> str]

\* a rendered diagnostic
Text(words) == [text |-> words]

\* Display of core::str::Utf8Error (error_len 0 stands for None: the text
\* ended inside a sequence)
Utf8ErrorToString(e) ==
    IF e.error_len = 0
    THEN [text |-> "incomplete utf-8 byte sequence from index", index |-> e.valid_up_to]
    ELSE [text |-> "invalid utf-8 sequence of bytes from index", index |-> e.valid_up_to,
          bytes |-> e.error_len]

\* Display of rustls::Error
RustlsErrorToString(e) == Text(e.alert)

\* web3utilities: From<std::io::Error> for UtilitiesError (a crate of its own)
IoErrorInto(e) == [kind |-> "Io", io |-> e.io]

\* (mutant) the catch-all loses its diagnostic
HttpOtherLost(other_error) == Http(MinreqString("Other", Text("")))

\* errors.rs: the minreq::Error::Other arm
HttpOther(other_error) == Http(MinreqString("Other", other_error))

\* errors.rs: impl From<minreq::Error> for AtollError
From(minreq_error) ==
    CASE minreq_error.kind = "InvalidUtf8InBody" ->
            Http(MinreqString("InvalidUtf8InBody", Utf8ErrorToString(minreq_error.e)))
      [] minreq_error.kind = "RustlsCreateConnection" ->
            Http(MinreqString("RustlsCreateConnection", RustlsErrorToString(minreq_error.e)))
      [] minreq_error.kind = "IoError" -> Utilities(IoErrorInto(minreq_error.e))
      [] minreq_error.kind = "MalformedChunkLength" -> Http(MinreqUnit("MalformedChunkLength"))
      [] minreq_error.kind = "MalformedChunkEnd" -> Http(MinreqUnit("MalformedChunkEnd"))
      [] minreq_error.kind = "MalformedContentLength" -> Http(MinreqUnit("MalformedContentLength"))
      [] minreq_error.kind = "HeadersOverflow" -> Http(MinreqUnit("HeadersOverflow"))
      [] minreq_error.kind = "StatusLineOverflow" -> Http(MinreqUnit("StatusLineOverflow"))
      [] minreq_error.kind = "AddressNotFound" -> Http(MinreqUnit("AddressNotFound"))
      [] minreq_error.kind = "RedirectLocationMissing" -> Http(MinreqUnit("RedirectLocationMissing"))
      [] minreq_error.kind = "InfiniteRedirectionLoop" -> Http(MinreqUnit("InfiniteRedirectionLoop"))
      [] minreq_error.kind = "TooManyRedirections" -> Http(MinreqUnit("TooManyRedirections"))
      [] minreq_error.kind = "InvalidUtf8InResponse" -> Http(MinreqUnit("InvalidUtf8InResponse"))
      [] minreq_error.kind = "PunycodeConversionFailed" -> Http(MinreqUnit("PunycodeConversionFailed"))
      [] minreq_error.kind = "HttpsFeatureNotEnabled" -> Http(MinreqUnit("HttpsFeatureNotEnabled"))
      [] minreq_error.kind = "PunycodeFeatureNotEnabled" -> Http(MinreqUnit("PunycodeFeatureNotEnabled"))
      [] minreq_error.kind = "BadProxy" -> Http(MinreqUnit("BadProxy"))
      [] minreq_error.kind = "BadProxyCreds" -> Http(MinreqUnit("BadProxyCreds"))
      [] minreq_error.kind = "ProxyConnect" -> Http(MinreqUnit("ProxyConnect"))
      [] minreq_error.kind = "InvalidProxyCreds" -> Http(MinreqUnit("InvalidProxyCreds"))
      [] minreq_error.kind = "Other" -> HttpOther(minreq_error.e)

\* rpc_requests.rs: enum RequestOutcome<T>
Success(rpc) == [variant |-> "Success", body |-> rpc]
InvalidJson(e) == [variant |-> "InvalidJson", body |-> e]

\* (mutant) the error of the second attempt is the one reported
is_ok_or_second_error(self, T, body) ==
    LET result == PathDeserializeRpcResponse(T, body)
    IN  IF result.ok THEN Ok(Success(result.v))
        ELSE LET second == FromStrRpcJsonError(body)
             IN  IF second.ok THEN Ok(InvalidJson(second.v))
                 ELSE Err(SerdeJsonDeser(PathErrorToString(second.diag)))

\* (mutant) the error shape is tried first
is_ok_or_error_first(self, T, body) ==
    LET second == FromStrRpcJsonError(body)
    IN  IF second.ok THEN Ok(InvalidJson(second.v))
        ELSE LET result == PathDeserializeRpcResponse(T, body)
             IN  IF result.ok THEN Ok(Success(result.v))
                 ELSE Err(SerdeJsonDeser(PathErrorToString(result.diag)))

\* rpc_methods.rs: RpcMethod::is_ok_or
is_ok_or(self, T, body) ==
    LET result == PathDeserializeRpcResponse(T, body)
    IN  IF result.ok THEN Ok(Success(result.v))
        ELSE LET second == FromStrRpcJsonError(body)
             IN  IF second.ok THEN Ok(InvalidJson(second.v))
                 ELSE Err(SerdeJsonDeser(PathErrorToString(result.diag)))

\* --------------------------------------------- the discriminator on its own

\* An error object as servers send it, with and without "data", and one whose
\* code does not fit JsonError.code
ErrorObject(code, withData) ==
    JObj(IF withData
         THEN <<<<"code", JNum(code)>>, <<"message", JStr("Invalid params")>>, <<"data", JStr("details")>>>>
         ELSE <<<<"code", JNum(code)>>, <<"message", JStr("Invalid params")>>>>)

\* The members response bodies are made of
Members ==
    { <<"jsonrpc", JStr("2.0")>>,
      <<"id", JNum(7)>>, <<"id", JNum(U8Max + 1)>>,
      <<"result", JNum(5)>>, <<"result", JNull>>, <<"result", JStr("x")>>,
      <<"error", ErrorObject(-32602, FALSE)>>,
      <<"error", ErrorObject(-32002, TRUE)>>,
      <<"error", ErrorObject(I16Max + 1, FALSE)>>,
      <<"not", JStr("recognized")>> }

\* Member lists of at most n members, none written twice word for word (a key
\* may still come twice, with two values)
MemberLists(n) ==
    { ms \in UNION { [1..k -> Members] : k \in 0..n } :
        \A i, j \in DOMAIN ms : i # j => ms[i] # ms[j] }

Bodies(n) ==
    { [form |-> f, members |-> ms] : f \in {"object", "trailing", "truncated"}, ms \in MemberLists(n) }
    \cup { [form |-> "empty", members |-> <<>>] }

DiscIdle ==
    /\ response_body = Absent
    /\ expected = Absent
    /\ self_method = Absent
    /\ outcome = Absent

BuildIdle ==
    /\ builder = Absent
    /\ calls = <<>>
    /\ json_body = Absent

ErrIdle ==
    /\ minreq_errors = Absent
    /\ atoll_errors = Absent

CallIdle ==
    /\ request = Absent
    /\ sends = 0
    /\ exchange = Absent
    /\ is_ok_or_calls = 0
    /\ call_result = Absent

ConcIdle == futures = Absent

DiscInit ==
    /\ ConcIdle
    /\ phase = "body"
    /\ BuildIdle
    /\ ErrIdle
    /\ CallIdle
    /\ response_body \in Bodies(MaxMembers)
    /\ expected \in PayloadTypes
    /\ self_method \in RpcMethod
    /\ outcome = Absent

\* one call of self.is_ok_or::<T>(response_body)
IsOkOr ==
    /\ phase = "body"
    /\ outcome' = is_ok_or(self_method, expected, response_body)
    /\ phase' = "decoded"
    /\ UNCHANGED <<response_body, expected, self_method, buildVars, errVars, callVars, concVars>>

DiscNext == IsOkOr

SpecDisc == DiscInit /\ [][DiscNext]_vars

\* ------------------------------------------------ the shapes of §4.2, stated
\* on the body as a text, apart from the deserializers

\* where key k stands in the body
At(ms, k) == { i \in 1..Len(ms) : Key(ms[i]) = k }
Once(ms, k) == Cardinality(At(ms, k)) = 1
The(ms, k) == Val(ms[CHOOSE i \in At(ms, k) : TRUE])

IsString(ms, k) == Once(ms, k) /\ The(ms, k).t = "str"
IsIntIn(ms, k, lo, hi) ==
    Once(ms, k) /\ The(ms, k).t = "num" /\ The(ms, k).n >= lo /\ The(ms, k).n <= hi

\* a JSON value usable as a T
FitsT(T, v) ==
    \/ v.t = "num" /\ v.n >= 0
    \/ v.t = "null" /\ T = "Option<u64>"

\* the T a JSON value stands for
PayloadOf(T, v) ==
    IF T = "u64" THEN RU64(v.n)
    ELSE IF v.t = "null" THEN RNone ELSE RSome(RU64(v.n))

\* {jsonrpc: string, id: u8, result: T}: the text starts with a closed object
\* holding each of the three once; an optional T may also be left out
SuccessShaped(T, body) ==
    /\ body.form \in {"object", "trailing"}
    /\ IsString(body.members, "jsonrpc")
    /\ IsIntIn(body.members, "id", 0, U8Max)
    /\ \/ Once(body.members, "result") /\ FitsT(T, The(body.members, "result"))
       \/ At(body.members, "result") = {} /\ T = "Option<u64>"

PayloadIn(T, body) ==
    IF At(body.members, "result") = {} THEN RNone
    ELSE PayloadOf(T, The(body.members, "result"))

\* {code: i16, message: string, data?: string}
ErrorObjectShaped(v) ==
    /\ v.t = "obj"
    /\ IsIntIn(v.m, "code", I16Min, I16Max)
    /\ IsString(v.m, "message")
    /\ \/ At(v.m, "data") = {}
       \/ Once(v.m, "data") /\ The(v.m, "data").t \in {"str", "null"}

\* {jsonrpc: string, id: u8, error: {...}}: the whole text is one such object
ErrorShaped(body) ==
    /\ body.form = "object"
    /\ IsString(body.members, "jsonrpc")
    /\ IsIntIn(body.members, "id", 0, U8Max)
    /\ Once(body.members, "error")
    /\ ErrorObjectShaped(The(body.members, "error"))

DataIn(v) ==
    IF At(v.m, "data") = {} \/ The(v.m, "data").t = "null" THEN RNone
    ELSE RSome(RString(The(v.m, "data").s))

Decoded == phase = "decoded"

\* C1: a success-shaped body is decoded, by every RpcMethod, as
\* Ok(Success) carrying the body's own jsonrpc, id and payload.
C1_SuccessPreserved ==
    Decoded /\ SuccessShaped(expected, response_body) =>
        outcome = Ok(Success(
            [jsonrpc |-> RString(The(response_body.members, "jsonrpc").s),
             id |-> RInt("u8", The(response_body.members, "id").n),
             result |-> PayloadIn(expected, response_body)]))

C1_Witness ==
    /\ Decoded
    /\ self_method = "GetBlock"
    /\ SuccessShaped(expected, response_body)
    /\ outcome.tag = "Ok"
    /\ outcome.v.body.id = RInt("u8", 7)
    /\ outcome.v.body.result = RU64(5)

\* C2: a body that is error-shaped and not success-shaped is decoded as
\* Ok(InvalidJson) carrying the body's own code, message and data.
C2_ErrorPreserved ==
    Decoded /\ ErrorShaped(response_body) /\ ~SuccessShaped(expected, response_body) =>
        LET e == The(response_body.members, "error")
        IN  outcome = Ok(InvalidJson(
                [jsonrpc |-> RString(The(response_body.members, "jsonrpc").s),
                 id |-> RInt("u8", The(response_body.members, "id").n),
                 error |-> [code |-> RInt("i16", The(e.m, "code").n),
                            message |-> RString(The(e.m, "message").s),
                            data |-> DataIn(e)]]))

C2_Witness ==
    /\ Decoded
    /\ ErrorShaped(response_body) /\ ~SuccessShaped(expected, response_body)
    /\ outcome.tag = "Ok" /\ outcome.v.variant = "InvalidJson"
    /\ outcome.v.body.error.code = RInt("i16", -32602)
    /\ outcome.v.body.error.message = RString("Invalid params")
    /\ outcome.v.body.error.data = RNone

\* the first of jsonrpc, id, result the body lacks
FirstLacking(T, ms) ==
    IF At(ms, "jsonrpc") = {} THEN "jsonrpc"
    ELSE IF At(ms, "id") = {} THEN "id"
    ELSE "result"

\* the body is a closed object whose only departure from the success shape is
\* that it lacks one of its fields
OnlyLacks(T, body) ==
    /\ body.form \in {"object", "trailing"}
    /\ \A k \in {"jsonrpc", "id", "result"} : Cardinality(At(body.members, k)) <= 1
    /\ At(body.members, "jsonrpc") # {} => IsString(body.members, "jsonrpc")
    /\ At(body.members, "id") # {} => IsIntIn(body.members, "id", 0, U8Max)
    /\ At(body.members, "result") # {} => FitsT(T, The(body.members, "result"))

ErrorShapeWords == {"error", "code", "message", "data", "trailing characters"}

\* C3: a body of neither shape gives Err(SerdeJsonDeser), never an outcome,
\* and the message is that of the success-shape attempt: it names no part of
\* the error shape, and when the body only lacks a field of the success shape
\* it names the first such field.
C3_NeitherIsDecodeError ==
    Decoded /\ ~SuccessShaped(expected, response_body) /\ ~ErrorShaped(response_body) =>
        /\ outcome.tag = "Err"
        /\ outcome.e.variant = "SerdeJsonDeser"
        /\ outcome.e.msg[1] \in {"", "jsonrpc", "id", "result"}
        /\ outcome.e.msg[2] \notin ErrorShapeWords
        /\ outcome.e.msg[3] \notin ErrorShapeWords
        /\ OnlyLacks(expected, response_body) =>
              outcome.e.msg = <<"", "missing field",
                                FirstLacking(expected, response_body.members),
                                Len(response_body.members) + 1>>

C3_Witness ==
    /\ Decoded
    /\ response_body = [form |-> "object", members |-> << <<"not", JStr("recognized")>> >>]
    /\ outcome = Err(SerdeJsonDeser(<<"", "missing field", "jsonrpc", 2>>))

\* C4: a body of both shapes is a Success, and InvalidJson is the outcome only
\* of bodies that are not success-shaped.
C4_SuccessWins ==
    Decoded =>
        /\ SuccessShaped(expected, response_body) /\ ErrorShaped(response_body) =>
              outcome.tag = "Ok" /\ outcome.v.variant = "Success"
        /\ outcome.tag = "Ok" /\ outcome.v.variant = "InvalidJson" =>
              ~SuccessShaped(expected, response_body)

C4_Witness ==
    /\ Decoded
    /\ ErrorShaped(response_body)
    /\ Once(response_body.members, "result")
    /\ The(response_body.members, "result") = JNum(5)
    /\ outcome.tag = "Ok" /\ outcome.v.variant = "Success"
    /\ outcome.v.body.result = RU64(5)

\* ------------------------------------------------------ the request builder

\* rpc_requests.rs: enum Cluster
Cluster == {"LocalNet", "DevNet", "TestNet", "MainNetBeta"}

DefaultId == 1

\* (mutant) the defaults a derived Default would give: empty text, zero, the
\* first variant of each enum
new_derived ==
    [jsonrpc |-> "",
     id |-> 0,
     method |-> "GetAccountInfo",
     value |-> Absent,
     cluster |-> "LocalNet",
     extras |-> <<>>]

\* RpcRequest::new
new ==
    [jsonrpc |-> "2.0",
     id |-> DefaultId,
     method |-> "GetAccountInfo",
     value |-> Absent,
     cluster |-> "DevNet",
     extras |-> <<>>]

\* impl Default for RpcRequest
RpcRequest_default == new

change_jsonrpc(self, jsonrpc) == [self EXCEPT !.jsonrpc = jsonrpc]
add_value(self, value) == [self EXCEPT !.value = value]
change_cluster(self, cluster) == [self EXCEPT !.cluster = cluster]
add_method(self, method) == [self EXCEPT !.method = method]
change_id(self, id) == [self EXCEPT !.id = id]

\* (mutant) an extra whose key is already there takes its place
add_extra_keyed(self, key, value) ==
    IF \E i \in DOMAIN self.extras : self.extras[i][1] = key
    THEN [self EXCEPT !.extras =
            [i \in DOMAIN self.extras |->
                IF self.extras[i][1] = key THEN <<key, value>> ELSE self.extras[i]]]
    ELSE [self EXCEPT !.extras = Append(self.extras, <<key, value>>)]

\* RpcRequest::add_extra
add_extra(self, key, value) ==
    [self EXCEPT !.extras = Append(self.extras, <<key, value>>)]

\* (mutant) the name the function's own name promises: UpperCamelCase
to_upper_camel_case_literal(self) == self

\* RpcMethod::to_upper_camel_case
to_upper_camel_case(self) ==
    CASE self = "GetAccountInfo" -> "getAccountInfo"
      [] self = "GetBalance" -> "getBalance"
      [] self = "GetBlock" -> "getBlock"
      [] self = "GetBlockHeight" -> "getBlockHeight"

\* json::object::Object::insert: the value of a key already in the object is
\* replaced where it stands, a new key goes to the end
ObjectInsert(ms, key, value) ==
    IF \E i \in DOMAIN ms : ms[i][1] = key
    THEN [i \in DOMAIN ms |-> IF ms[i][1] = key THEN <<key, value>> ELSE ms[i]]
    ELSE Append(ms, <<key, value>>)

\* request: self.extras.into_iter().for_each(|(key, value)| insert)
RECURSIVE ExtraParameters(_, _)
ExtraParameters(extras, ms) ==
    IF extras = <<>> THEN ms
    ELSE ExtraParameters(Tail(extras), ObjectInsert(ms, Head(extras)[1], Head(extras)[2]))

\* JsonValue::from(Option<JsonValue>)
FromOption(value) == IF value = Absent THEN JNull ELSE value

\* (mutant) the second element of params is always written
EnvelopeTwoParams(self) ==
    JObj(<< <<"jsonrpc", JStr(self.jsonrpc)>>,
            <<"id", JNum(self.id)>>,
            <<"method", JStr(to_upper_camel_case(self.method))>>,
            <<"params", JArr(<<FromOption(self.value),
                               JObj(ExtraParameters(self.extras, <<>>))>>)>> >>)

\* request, up to json_body: the envelope that .to_string() writes out
Envelope(self) ==
    LET extra_parameters == ExtraParameters(self.extras, <<>>)
    IN  JObj(<< <<"jsonrpc", JStr(self.jsonrpc)>>,
                <<"id", JNum(self.id)>>,
                <<"method", JStr(to_upper_camel_case(self.method))>>,
                <<"params", IF extra_parameters = <<>>
                            THEN JArr(<<FromOption(self.value)>>)
                            ELSE JArr(<<FromOption(self.value), JObj(extra_parameters)>>)>> >>)

\* what the builder calls are given here
ExtraKeys == {"encoding", "commitment"}
ExtraValues == {JStr("base64"), JStr("finalized")}
PrimaryValues == {JStr("11111111111111111111111111111111"), JNull}
Ids == {7, U8Max}
Versions == {"1.0"}

BuildInit ==
    /\ ConcIdle
    /\ phase = "building"
    /\ builder = new
    /\ calls = <<>>
    /\ json_body = Absent
    /\ DiscIdle
    /\ ErrIdle
    /\ CallIdle

Called(call) ==
    /\ phase = "building"
    /\ Len(calls) < MaxCalls
    /\ calls' = Append(calls, call)
    /\ UNCHANGED <<phase, json_body, discVars, errVars, callVars, concVars>>

ChangeJsonrpc ==
    \E v \in Versions :
        /\ Called(<<"change_jsonrpc", v>>)
        /\ builder' = change_jsonrpc(builder, v)

AddValue ==
    \E v \in PrimaryValues :
        /\ Called(<<"add_value", v>>)
        /\ builder' = add_value(builder, v)

ChangeCluster ==
    \E c \in Cluster :
        /\ Called(<<"change_cluster", c>>)
        /\ builder' = change_cluster(builder, c)

AddMethod ==
    \E m \in RpcMethod :
        /\ Called(<<"add_method", m>>)
        /\ builder' = add_method(builder, m)

AddExtra ==
    \E k \in ExtraKeys, v \in ExtraValues :
        /\ Called(<<"add_extra", k, v>>)
        /\ builder' = add_extra(builder, k, v)

ChangeId ==
    \E i \in Ids :
        /\ Called(<<"change_id", i>>)
        /\ builder' = change_id(builder, i)

\* request, lines 74-99: the builder is consumed and the envelope written
Seal ==
    /\ phase = "building"
    /\ json_body' = Envelope(builder)
    /\ phase' = "sealed"
    /\ UNCHANGED <<builder, calls, discVars, errVars, callVars, concVars>>

BuildNext ==
    \/ ChangeJsonrpc
    \/ AddValue
    \/ ChangeCluster
    \/ AddMethod
    \/ AddExtra
    \/ ChangeId
    \/ Seal

SpecBuild == BuildInit /\ [][BuildNext]_vars

Sealed == phase = "sealed"

\* the params array of the serialized envelope
Params == The(json_body.m, "params").a

\* where key k was added to the extras
AddedAt(extras, k) == { i \in DOMAIN extras : extras[i][1] = k }
LastOf(S) == CHOOSE i \in S : \A j \in S : j <= i
FirstOf(S) == CHOOSE i \in S : \A j \in S : i <= j

\* C5: params is [primary] when no extra was added (null when no primary
\* value was set), and [primary, object] otherwise, the object holding every
\* added key once, in the order the keys were first added, each with the value
\* of the last add_extra call for it.
C5_ParamsShape ==
    Sealed =>
        /\ Params[1] = (IF builder.value = Absent THEN JNull ELSE builder.value)
        /\ builder.extras = <<>> => Len(Params) = 1
        /\ builder.extras # <<>> =>
              /\ Len(Params) = 2
              /\ Params[2].t = "obj"
              /\ \A i \in DOMAIN builder.extras : Once(Params[2].m, builder.extras[i][1])
              /\ \A j \in DOMAIN Params[2].m :
                    LET k == Key(Params[2].m[j])
                    IN  /\ AddedAt(builder.extras, k) # {}
                        /\ Val(Params[2].m[j]) = builder.extras[LastOf(AddedAt(builder.extras, k))][2]
              /\ \A i, j \in DOMAIN Params[2].m :
                    i < j => FirstOf(AddedAt(builder.extras, Key(Params[2].m[i])))
                             < FirstOf(AddedAt(builder.extras, Key(Params[2].m[j])))

C5_Witness ==
    /\ Sealed
    /\ builder.value = Absent
    /\ builder.extras = << <<"encoding", JStr("base64")>>, <<"commitment", JStr("finalized")>>,
                           <<"encoding", JStr("finalized")>> >>
    /\ Params = << JNull, JObj(<< <<"encoding", JStr("finalized")>>,
                                  <<"commitment", JStr("finalized")>> >>) >>

\* the add_extra calls among the calls made, in order
RECURSIVE ExtrasCalled(_)
ExtrasCalled(cs) ==
    IF cs = <<>> THEN <<>>
    ELSE IF Head(cs)[1] = "add_extra"
         THEN <<<<Head(cs)[2], Head(cs)[3]>>>> \o ExtrasCalled(Tail(cs))
         ELSE ExtrasCalled(Tail(cs))

\* what the last call of setter `name` gave, or the default
LastGiven(cs, name, default) ==
    LET S == { i \in DOMAIN cs : cs[i][1] = name }
    IN  IF S = {} THEN default ELSE cs[LastOf(S)][2]

\* C6: the extras list is the list of add_extra calls made, one entry per
\* call in call order, earlier entries kept even for a repeated key; the other
\* fields are what their own setters last gave (or the default), whatever
\* add_extra calls came in between.
C6_ExtrasAppendOnly ==
    phase \in {"building", "sealed"} =>
        /\ builder.extras = ExtrasCalled(calls)
        /\ builder.jsonrpc = LastGiven(calls, "change_jsonrpc", "2.0")
        /\ builder.id = LastGiven(calls, "change_id", DefaultId)
        /\ builder.method = LastGiven(calls, "add_method", "GetAccountInfo")
        /\ builder.value = LastGiven(calls, "add_value", Absent)
        /\ builder.cluster = LastGiven(calls, "change_cluster", "DevNet")

C6_Witness ==
    /\ phase = "building"
    /\ calls = << <<"change_id", 7>>, <<"add_extra", "encoding", JStr("base64")>>,
                  <<"add_extra", "encoding", JStr("finalized")>> >>
    /\ builder.id = 7
    /\ builder.extras = << <<"encoding", JStr("base64")>>, <<"encoding", JStr("finalized")>> >>

\* ------------------------------------------------- the error unification

\* minreq::Error, as the HTTP client returns it
MinreqUnitKinds ==
    {"MalformedChunkLength", "MalformedChunkEnd", "MalformedContentLength",
     "HeadersOverflow", "StatusLineOverflow", "AddressNotFound",
     "RedirectLocationMissing", "InfiniteRedirectionLoop", "TooManyRedirections",
     "InvalidUtf8InResponse", "PunycodeConversionFailed", "HttpsFeatureNotEnabled",
     "PunycodeFeatureNotEnabled", "BadProxy", "BadProxyCreds", "ProxyConnect",
     "InvalidProxyCreds"}

Utf8Errors ==
    { [valid_up_to |-> 0, error_len |-> 1], [valid_up_to |-> 3, error_len |-> 0] }
RustlsErrors == { [alert |-> "invalid certificate"], [alert |-> "handshake failure"] }
IoErrors == { [io |-> "ConnectionRefused"], [io |-> "TimedOut"] }
OtherTexts == { Text("unreachable: a"), Text("unreachable: b") }

MinreqErrors ==
    { [kind |-> k] : k \in MinreqUnitKinds }
    \cup { [kind |-> "InvalidUtf8InBody", e |-> u] : u \in Utf8Errors }
    \cup { [kind |-> "RustlsCreateConnection", e |-> r] : r \in RustlsErrors }
    \cup { [kind |-> "IoError", e |-> i] : i \in IoErrors }
    \cup { [kind |-> "Other", e |-> o] : o \in OtherTexts }

ErrInit ==
    /\ ConcIdle
    /\ phase = "raised"
    /\ minreq_errors \in MinreqErrors \X MinreqErrors
    /\ atoll_errors = Absent
    /\ DiscIdle
    /\ BuildIdle
    /\ CallIdle

\* AtollError::from on each of the two
Unify ==
    /\ phase = "raised"
    /\ atoll_errors' = <<From(minreq_errors[1]), From(minreq_errors[2])>>
    /\ phase' = "unified"
    /\ UNCHANGED <<minreq_errors, discVars, buildVars, callVars, concVars>>

ErrNext == Unify

SpecErr == ErrInit /\ [][ErrNext]_vars

Unified == phase = "unified"

\* the diagnostic a string-carrying transport error holds, as a text
DiagnosticOf(e) ==
    CASE e.kind = "InvalidUtf8InBody" ->
            IF e.e.error_len = 0
            THEN [text |-> "incomplete utf-8 byte sequence from index", index |-> e.e.valid_up_to]
            ELSE [text |-> "invalid utf-8 sequence of bytes from index", index |-> e.e.valid_up_to,
                  bytes |-> e.e.error_len]
      [] e.kind = "RustlsCreateConnection" -> [text |-> e.e.alert]
      [] e.kind = "Other" -> e.e

\* C7 as stated: every transport failure kind becomes an Http(...) value, two
\* different failures never the same value, diagnostics kept.
C7_AllHttpOneToOne ==
    Unified =>
        /\ \A i \in {1, 2} : atoll_errors[i].variant = "Http"
        /\ minreq_errors[1] # minreq_errors[2] => atoll_errors[1] # atoll_errors[2]

\* C7, amended: every transport failure kind except IoError becomes an
\* Http(...) value of the same kind, carrying the same diagnostic when it has
\* one, so that two different such failures never give the same value; IoError
\* becomes a Utilities(...) value, which is no Http value.
C7_HttpOneToOneButIo ==
    Unified =>
        /\ \A i \in {1, 2} :
              IF minreq_errors[i].kind = "IoError"
              THEN atoll_errors[i].variant = "Utilities"
              ELSE /\ atoll_errors[i].variant = "Http"
                   /\ atoll_errors[i].inner.kind = minreq_errors[i].kind
                   /\ minreq_errors[i].kind \notin MinreqUnitKinds =>
                         atoll_errors[i].inner.s = DiagnosticOf(minreq_errors[i])
        /\ /\ minreq_errors[1] # minreq_errors[2]
           /\ "IoError" \notin {minreq_errors[1].kind, minreq_errors[2].kind}
           => atoll_errors[1] # atoll_errors[2]

C7_Witness ==
    /\ Unified
    /\ minreq_errors = <<[kind |-> "Other", e |-> Text("unreachable: a")],
                         [kind |-> "Other", e |-> Text("unreachable: b")]>>
    /\ atoll_errors[1] = Http(MinreqString("Other", Text("unreachable: a")))
    /\ atoll_errors[2] = Http(MinreqString("Other", Text("unreachable: b")))

\* ------------------------------------------------------------- the dispatch

\* Cluster::url
url(self) ==
    CASE self = "LocalNet" -> "https://127.0.0.1:8899"
      [] self = "DevNet" -> "https://api.devnet.solana.com"
      [] self = "TestNet" -> "https://api.testnet.solana.com"
      [] self = "MainNetBeta" -> "https://api.mainnet-beta.solana.com"

Timeout == 60

\* (mutant) the POST is prepared without .with_timeout(60): 0 stands for a
\* client on which no timeout was set
HttpClientNoTimeout(self, body) ==
    [verb |-> "POST",
     url |-> url(self.cluster),
     headers |-> << <<"Content-Type", "application/json">> >>,
     body |-> body,
     timeout |-> 0]

\* request: minreq::post(url).with_header(..).with_body(json_body).with_timeout(60)
HttpClient(self, body) ==
    [verb |-> "POST",
     url |-> url(self.cluster),
     headers |-> << <<"Content-Type", "application/json">> >>,
     body |-> body,
     timeout |-> Timeout]

\* minreq::Response: the status line, the headers and the bytes of the body,
\* which are either the UTF-8 of a text or not UTF-8 at all
StatusLines == { [status_code |-> 200, reason_phrase |-> "OK"],
                 [status_code |-> 500, reason_phrase |-> "Internal Server Error"] }
Headers == << <<"content-type", "application/json">> >>

Response(line, bytes) ==
    [status_code |-> line.status_code,
     reason_phrase |-> line.reason_phrase,
     headers |-> Headers,
     body |-> bytes]

Utf8Bytes(text) == [text |-> text, utf8_error |-> Absent]
BrokenBytes(text, e) == [text |-> text, utf8_error |-> e]

Responses ==
    { Response(l, Utf8Bytes(b)) : l \in StatusLines, b \in Bodies(MaxResponseMembers) }
    \cup { Response(l, BrokenBytes([form |-> "object", members |-> <<>>], e)) :
             l \in StatusLines, e \in Utf8Errors }

\* what http_client.send() fails with
SendErrors == { e \in MinreqErrors : e.kind # "InvalidUtf8InBody" }

\* (mutant) the bytes are taken as text whatever they are
as_str_unchecked(response) == Ok(response.body.text)

\* minreq::Response::as_str
as_str(response) ==
    IF response.body.utf8_error = Absent
    THEN Ok(response.body.text)
    ELSE Err([kind |-> "InvalidUtf8InBody", e |-> response.body.utf8_error])

U16Modulus == 65536

\* RpcMethod::build_http_response
build_http_response(self, response, body) ==
    [status_code |-> response.status_code % U16Modulus,
     headers |-> response.headers,
     reason_phrase |-> response.reason_phrase,
     body |-> body]

Init ==
    /\ ConcIdle
    /\ phase = "created"
    /\ request \in { add_method(new, m) : m \in RpcMethod }
    /\ expected \in PayloadTypes
    /\ json_body = Absent
    /\ sends = 0
    /\ exchange = Absent
    /\ is_ok_or_calls = 0
    /\ call_result = Absent
    /\ response_body = Absent
    /\ self_method = Absent
    /\ outcome = Absent
    /\ builder = Absent
    /\ calls = <<>>
    /\ ErrIdle

\* request, lines 74-106: the envelope is written, the POST prepared and
\* http_client.send() handed to the blocking pool
RequestSend ==
    /\ phase = "created"
    /\ json_body' = Envelope(request)
    /\ exchange' = [state |-> "pending", client |-> HttpClient(request, Envelope(request))]
    /\ sends' = sends + 1
    /\ phase' = "awaiting"
    /\ UNCHANGED <<request, is_ok_or_calls, call_result, discVars, builder, calls, errVars, concVars>>

\* the exchange ends with a response
HttpRespond ==
    /\ phase = "awaiting"
    /\ \E r \in Responses : exchange' = [state |-> "done", sent |-> Ok(r)]
    /\ phase' = "completed"
    /\ UNCHANGED <<request, sends, is_ok_or_calls, call_result, discVars, buildVars, errVars, concVars>>

\* the exchange ends with a transport error (the timeout among them)
HttpFail ==
    /\ phase = "awaiting"
    /\ \E e \in SendErrors : exchange' = [state |-> "done", sent |-> Err(e)]
    /\ phase' = "completed"
    /\ UNCHANGED <<request, sends, is_ok_or_calls, call_result, discVars, buildVars, errVars, concVars>>

\* (mutant) a failed send is tried again
AwaitSendRetry ==
    /\ phase = "completed"
    /\ IF exchange.sent.tag = "Err"
       THEN /\ phase' = "created"
            /\ UNCHANGED <<call_result, self_method>>
       ELSE /\ self_method' = request.method
            /\ phase' = "parsing"
            /\ UNCHANGED call_result
    /\ UNCHANGED <<request, sends, exchange, is_ok_or_calls, response_body, expected,
                   outcome, buildVars, errVars, concVars>>

\* request, line 106: unblock(..).await? gives the response or returns the
\* error, unified; line 108 enters self.method.parse(response)
AwaitSend ==
    /\ phase = "completed"
    /\ IF exchange.sent.tag = "Err"
       THEN /\ call_result' = Err(From(exchange.sent.e))
            /\ phase' = "returned"
            /\ UNCHANGED self_method
       ELSE /\ self_method' = request.method
            /\ phase' = "parsing"
            /\ UNCHANGED call_result
    /\ UNCHANGED <<request, sends, exchange, is_ok_or_calls, response_body, expected,
                   outcome, buildVars, errVars, concVars>>

\* parse, line 18: let response_body = response.as_str()?
AsStr ==
    /\ phase = "parsing"
    /\ LET text == as_str(exchange.sent.v)
       IN  IF text.tag = "Err"
           THEN /\ call_result' = Err(From(text.e))
                /\ phase' = "returned"
                /\ UNCHANGED response_body
           ELSE /\ response_body' = text.v
                /\ phase' = "discriminating"
                /\ UNCHANGED call_result
    /\ UNCHANGED <<request, sends, exchange, is_ok_or_calls, expected, self_method,
                   outcome, buildVars, errVars, concVars>>

\* parse, lines 20-35: self.is_ok_or::<T>(response_body)?, then
\* build_http_response; request returns what parse returns
Discriminate ==
    /\ phase = "discriminating"
    /\ outcome' = is_ok_or(self_method, expected, response_body)
    /\ is_ok_or_calls' = is_ok_or_calls + 1
    /\ call_result' = IF outcome'.tag = "Err"
                 THEN outcome'
                 ELSE Ok(build_http_response(self_method, exchange.sent.v, outcome'.v))
    /\ phase' = "returned"
    /\ UNCHANGED <<request, sends, exchange, response_body, expected, self_method,
                   buildVars, errVars, concVars>>

Next ==
    \/ RequestSend
    \/ HttpRespond
    \/ HttpFail
    \/ AwaitSend
    \/ AsStr
    \/ Discriminate

Spec == Init /\ [][Next]_vars

Returned == phase = "returned"

SendFailed == exchange # Absent /\ exchange.state = "done" /\ exchange.sent.tag = "Err"
SendGave == exchange # Absent /\ exchange.state = "done" /\ exchange.sent.tag = "Ok"
NotUtf8 == SendGave /\ exchange.sent.v.body.utf8_error # Absent
GotText == SendGave /\ exchange.sent.v.body.utf8_error = Absent

TransportError(r) == r.tag = "Err" /\ r.e.variant \in {"Http", "Utilities"}
DecodeError(r) == r.tag = "Err" /\ r.e.variant = "SerdeJsonDeser"

\* C8: the discriminator is invoked only on the text of a response that was
\* received and is UTF-8; a call whose send failed or whose body is not UTF-8
\* returns a transport error of the taxonomy and never invokes it.
C8_DiscriminatorAfterText ==
    /\ is_ok_or_calls > 0 \/ phase = "discriminating" => GotText
    /\ Returned /\ (SendFailed \/ NotUtf8) =>
          /\ TransportError(call_result)
          /\ is_ok_or_calls = 0
          /\ outcome = Absent
    /\ Returned /\ SendFailed => call_result.e \in { From(e) : e \in SendErrors }
    /\ Returned /\ NotUtf8 =>
          /\ call_result.e.variant = "Http"
          /\ call_result.e.inner.kind = "InvalidUtf8InBody"

C8_Witness ==
    /\ Returned
    /\ NotUtf8
    /\ is_ok_or_calls = 0
    /\ call_result = Err(Http(MinreqString("InvalidUtf8InBody",
            [text |-> "invalid utf-8 sequence of bytes from index", index |-> 0, bytes |-> 1])))

EmptyOrTruncated ==
    GotText /\ exchange.sent.v.body.text.form \in {"empty", "truncated"}

\* C9 as stated: an empty or truncated body is a transport failure and is not
\* handed to the discriminator.
C9_EmptyIsTransportError ==
    Returned /\ EmptyOrTruncated =>
        /\ is_ok_or_calls = 0
        /\ TransportError(call_result)

\* C9, amended: an empty or truncated body that is UTF-8 is handed to the
\* discriminator like any other text, and the call returns the decode error
\* Err(SerdeJsonDeser): end of input where a value was expected for the empty
\* body; for a truncated one, end of input inside the object, unless a member
\* before the cut was already refused.
C9_EmptyIsDecodeError ==
    Returned /\ EmptyOrTruncated =>
        LET text == exchange.sent.v.body.text
        IN  /\ is_ok_or_calls = 1
            /\ DecodeError(call_result)
            /\ text.form = "empty" =>
                  call_result.e.msg = <<"", "EOF while parsing a value", "", 0>>
            /\ text.form = "truncated" =>
                  \/ call_result.e.msg = <<"", "EOF while parsing an object", "",
                                           Len(text.members) + 1>>
                  \/ /\ call_result.e.msg[4] \in 1..Len(text.members)
                     /\ call_result.e.msg[2] \in {"duplicate field", "invalid type", "invalid value"}

C9_Witness ==
    /\ Returned
    /\ GotText
    /\ exchange.sent.v.body.text = [form |-> "empty", members |-> <<>>]
    /\ is_ok_or_calls = 1
    /\ call_result = Err(SerdeJsonDeser(<<"", "EOF while parsing a value", "", 0>>))

\* C10: a call sends once: the POST is started exactly once, whatever the
\* exchange, the decoding or the outcome gives; what the call returns is either
\* an error alone or a whole HttpResponse, and nothing follows the return.
C10_ExactlyOnePost ==
    /\ sends <= 1
    /\ phase # "created" => sends = 1
    /\ Returned =>
          /\ call_result # Absent
          /\ call_result.tag = "Err" => DOMAIN call_result = {"tag", "e"}
          /\ call_result.tag = "Ok" =>
                /\ DOMAIN call_result.v = {"status_code", "headers", "reason_phrase", "body"}
                /\ call_result.v.body = outcome.v
                /\ call_result.v.body.variant \in {"Success", "InvalidJson"}
          /\ (SendFailed \/ NotUtf8 \/ (outcome # Absent /\ outcome.tag = "Err")) =>
                call_result.tag = "Err"
          /\ ~ENABLED Next

C10_Witness ==
    /\ Returned
    /\ sends = 1
    /\ call_result.tag = "Ok"
    /\ call_result.v.body.variant = "InvalidJson"
    /\ call_result.v.status_code = 500

\* -------------------------------------------------- the life of one request

\* Most setter calls made on a request before it is dispatched, in the runs
\* that follow one request from new() to the return of request().
MaxOverrides == 2

\* The responses a node gives in these runs: a success envelope, a body of
\* neither shape, a protocol error envelope under status 500, and bytes that are
\* not UTF-8
LifeResponses ==
    { Response([status_code |-> 200, reason_phrase |-> "OK"],
               Utf8Bytes([form |-> "object",
                          members |-> << <<"jsonrpc", JStr("2.0")>>, <<"id", JNum(7)>>,
                                         <<"result", JNum(5)>> >>])),
      Response([status_code |-> 200, reason_phrase |-> "OK"],
               Utf8Bytes([form |-> "object", members |-> << <<"not", JStr("recognized")>> >>])),
      Response([status_code |-> 500, reason_phrase |-> "Internal Server Error"],
               Utf8Bytes([form |-> "object",
                          members |-> << <<"jsonrpc", JStr("2.0")>>, <<"id", JNum(7)>>,
                                         <<"error", ErrorObject(-32602, FALSE)>> >>])),
      Response([status_code |-> 200, reason_phrase |-> "OK"],
               BrokenBytes([form |-> "object", members |-> <<>>],
                           [valid_up_to |-> 0, error_len |-> 1])) }

\* what http_client.send() fails with in these runs, before any timeout
LifeSendErrors == { [kind |-> "AddressNotFound"] }

\* what http_client.send() fails with when the timeout set on it runs out
TimedOut == [kind |-> "IoError", e |-> [io |-> "TimedOut"]]

\* T is the type the caller will instantiate request::<T> with
LifeInit ==
    /\ ConcIdle
    /\ phase = "building"
    /\ builder = new
    /\ calls = <<>>
    /\ json_body = Absent
    /\ expected \in PayloadTypes
    /\ response_body = Absent
    /\ self_method = Absent
    /\ outcome = Absent
    /\ ErrIdle
    /\ CallIdle

\* one setter call on the builder, which each setter takes and gives back
Override ==
    /\ Len(calls) < MaxOverrides
    /\ \/ ChangeJsonrpc
       \/ AddValue
       \/ ChangeCluster
       \/ AddMethod
       \/ AddExtra
       \/ ChangeId

\* request::<T>(self) is called: the builder is moved into the call, and the
\* caller is left without it
Dispatch ==
    /\ phase = "building"
    /\ request' = builder
    /\ builder' = Absent
    /\ phase' = "created"
    /\ UNCHANGED <<calls, json_body, sends, exchange, is_ok_or_calls, call_result,
                   discVars, errVars, concVars>>

\* the exchange ends with a response
LifeRespond ==
    /\ phase = "awaiting"
    /\ \E r \in LifeResponses : exchange' = [state |-> "done", sent |-> Ok(r)]
    /\ phase' = "completed"
    /\ UNCHANGED <<request, sends, is_ok_or_calls, call_result, discVars, buildVars, errVars, concVars>>

\* the exchange ends with a transport error
LifeFail ==
    /\ phase = "awaiting"
    /\ \E e \in LifeSendErrors : exchange' = [state |-> "done", sent |-> Err(e)]
    /\ phase' = "completed"
    /\ UNCHANGED <<request, sends, is_ok_or_calls, call_result, discVars, buildVars, errVars, concVars>>

\* the timeout set on the client runs out while the exchange is still open
LifeTimeout ==
    /\ phase = "awaiting"
    /\ exchange.client.timeout > 0
    /\ exchange' = [state |-> "done", sent |-> Err(TimedOut)]
    /\ phase' = "completed"
    /\ UNCHANGED <<request, sends, is_ok_or_calls, call_result, discVars, buildVars, errVars, concVars>>

LifeNext ==
    \/ Override
    \/ Dispatch
    \/ RequestSend
    \/ LifeRespond
    \/ LifeFail
    \/ LifeTimeout
    \/ AwaitSend
    \/ AsStr
    \/ Discriminate

\* The caller awaits the call it made, so each step of the call that can be
\* taken is taken, and the timeout of an open exchange runs out at last. That
\* the node answers, or that the builder is ever dispatched, is not assumed.
LifeFairness ==
    /\ WF_vars(RequestSend)
    /\ WF_vars(LifeTimeout)
    /\ WF_vars(AwaitSend)
    /\ WF_vars(AsStr)
    /\ WF_vars(Discriminate)

SpecLife == LifeInit /\ [][LifeNext]_vars /\ LifeFairness

Dispatched == request # Absent

\* a terminal result: an error alone, or a whole HttpResponse
Terminal(r) ==
    \/ r.tag = "Err" /\ DOMAIN r = {"tag", "e"}
    \/ /\ r.tag = "Ok"
       /\ DOMAIN r.v = {"status_code", "headers", "reason_phrase", "body"}

\* at each moment of its life the request is in one place: with the caller,
\* who has made `calls` on new(), or inside the one call that consumed it
LifeShape ==
    /\ phase = "building" =>
          /\ builder # Absent /\ request = Absent /\ sends = 0 /\ call_result = Absent
          /\ calls = <<>> => builder = new
    /\ phase # "building" =>
          /\ builder = Absent /\ request # Absent /\ Len(calls) <= MaxOverrides
          /\ ~ENABLED Override
          /\ ~ENABLED Dispatch
    /\ sends <= 1
    /\ exchange # Absent /\ exchange.state = "pending" => exchange.client.timeout = Timeout
    /\ call_result # Absent <=> Returned
    /\ Returned => Terminal(call_result) /\ ~ENABLED LifeNext

\* once consumed, the request is never given back, changed or consumed again,
\* and a result once returned stays the result
LifeStep ==
    /\ Dispatched => request' = request /\ builder' = Absent /\ calls' = calls
    /\ Returned => call_result' = call_result

\* C11: a request is created by new(), then overridden zero or more times, then
\* consumed by one dispatch, after which the caller can neither dispatch nor
\* modify it; the dispatched call sends once, its exchange runs under the
\* timeout of 60, and (the exchange ending at the latest with that timeout) the
\* call eventually returns one terminal result, Ok(HttpResponse) or Err, which
\* never changes afterwards.
C11_Lifecycle ==
    /\ []LifeShape
    /\ [][LifeStep]_vars
    /\ Dispatched ~> Returned

C11_Witness ==
    /\ Returned
    /\ calls = << <<"add_method", "GetBalance">>, <<"change_id", 7>> >>
    /\ builder = Absent
    /\ request = change_id(add_method(new, "GetBalance"), 7)
    /\ sends = 1
    /\ exchange.sent = Err(TimedOut)
    /\ call_result = Err(From(TimedOut))

\* ------------------------------------------------ defaults and wire-names

SetterCalled(name) == \E i \in DOMAIN calls : calls[i][1] = name

\* the member of the serialized envelope under key k
Member(k) == The(json_body.m, k)

\* C13: new() and Default give protocol version "2.0", identifier 1, the first
\* RpcMethod variant (GetAccountInfo), no primary value, cluster DevNet and no
\* extras; a field whose setter was never called still has that value when the
\* request is sealed at dispatch, and the envelope is written from it.
C13_Defaults ==
    /\ new = [jsonrpc |-> "2.0", id |-> 1, method |-> RpcMethodVariants[1],
              value |-> Absent, cluster |-> "DevNet", extras |-> <<>>]
    /\ RpcMethodVariants[1] = "GetAccountInfo"
    /\ RpcRequest_default = new
    /\ phase = "building" /\ calls = <<>> => builder = RpcRequest_default
    /\ Sealed =>
          /\ ~SetterCalled("change_jsonrpc") =>
                builder.jsonrpc = "2.0" /\ Member("jsonrpc") = JStr("2.0")
          /\ ~SetterCalled("change_id") => builder.id = 1 /\ Member("id") = JNum(1)
          /\ ~SetterCalled("add_method") =>
                builder.method = "GetAccountInfo" /\ Member("method") = JStr("getAccountInfo")
          /\ ~SetterCalled("add_value") => builder.value = Absent /\ Params[1] = JNull
          /\ ~SetterCalled("change_cluster") => builder.cluster = "DevNet"
          /\ ~SetterCalled("add_extra") => builder.extras = <<>> /\ Len(Params) = 1

C13_Witness ==
    /\ Sealed
    /\ calls = << <<"change_cluster", "TestNet">>, <<"add_value", JNull>> >>
    /\ builder = [jsonrpc |-> "2.0", id |-> 1, method |-> "GetAccountInfo",
                  value |-> JNull, cluster |-> "TestNet", extras |-> <<>>]
    /\ json_body = JObj(<< <<"jsonrpc", JStr("2.0")>>, <<"id", JNum(1)>>,
                           <<"method", JStr("getAccountInfo")>>,
                           <<"params", JArr(<<JNull>>)>> >>)

\* the fixed method wire-names
WireNames == {"getAccountInfo", "getBalance", "getBlock", "getBlockHeight"}

\* the wire-name that goes with each variant
WireNameOf(m) ==
    CASE m = "GetAccountInfo" -> "getAccountInfo"
      [] m = "GetBalance" -> "getBalance"
      [] m = "GetBlock" -> "getBlock"
      [] m = "GetBlockHeight" -> "getBlockHeight"

\* C14: the variants of RpcMethod and the four wire-names getAccountInfo,
\* getBalance, getBlock, getBlockHeight correspond one to one, and the method
\* member of the serialized envelope is the wire-name of the method last set
\* on the builder (of the default method when none was set); GetBalance on
\* DevNet with a primary value and no extras is written with method
\* "getBalance" and one element in params.
C14_WireNames ==
    /\ RpcMethod = { RpcMethodVariants[i] : i \in DOMAIN RpcMethodVariants }
    /\ { to_upper_camel_case(m) : m \in RpcMethod } = WireNames
    /\ \A m \in RpcMethod : to_upper_camel_case(m) = WireNameOf(m)
    /\ \A m1, m2 \in RpcMethod :
          m1 # m2 => to_upper_camel_case(m1) # to_upper_camel_case(m2)
    /\ Sealed =>
          /\ Once(json_body.m, "method")
          /\ Member("method") =
                JStr(WireNameOf(LastGiven(calls, "add_method", "GetAccountInfo")))
          /\ /\ builder.method = "GetBalance"
             /\ builder.cluster = "DevNet"
             /\ builder.value # Absent
             /\ builder.extras = <<>>
             => Member("method") = JStr("getBalance") /\ Len(Params) = 1

C14_Witness ==
    /\ Sealed
    /\ calls = << <<"add_method", "GetBlock">>, <<"add_method", "GetBalance">>,
                  <<"add_value", JStr("11111111111111111111111111111111")>> >>
    /\ builder.cluster = "DevNet"
    /\ json_body = JObj(<< <<"jsonrpc", JStr("2.0")>>, <<"id", JNum(1)>>,
                           <<"method", JStr("getBalance")>>,
                           <<"params", JArr(<<JStr("11111111111111111111111111111111")>>)>> >>)

\* ---------------------------------------------- calls running side by side

\* errors.rs: AtollError::UnsupportedSolanaRpcMethod
UnsupportedSolanaRpcMethod == [variant |-> "UnsupportedSolanaRpcMethod"]

\* (mutant) GetBlockHeight is in the enum but not wired into the match
parse_unwired(self, T, response) ==
    LET text == as_str(response)
        decoded == is_ok_or(self, T, text.v)
    IN  IF text.tag = "Err" THEN Err(From(text.e))
        ELSE IF self = "GetBlockHeight" THEN Err(UnsupportedSolanaRpcMethod)
        ELSE IF decoded.tag = "Err" THEN decoded
        ELSE Ok(build_http_response(self, response, decoded.v))

\* RpcMethod::parse: as_str()?, then the match on self, whose four arms are
\* the same build_http_response(&response, self.is_ok_or::<T>(response_body)?)
parse(self, T, response) ==
    LET text == as_str(response)
        decoded == is_ok_or(self, T, text.v)
        arm == IF decoded.tag = "Err" THEN decoded
               ELSE Ok(build_http_response(self, response, decoded.v))
    IN  IF text.tag = "Err" THEN Err(From(text.e))
        ELSE CASE self = "GetAccountInfo" -> arm
               [] self = "GetBalance" -> arm
               [] self = "GetBlock" -> arm
               [] self = "GetBlockHeight" -> arm

\* the two calls
CallIds == {1, 2}

\* the future a call of request::<T>(self) gives: the request moved into it,
\* and the locals of request, each Absent until the line that sets it has run
Future(self, T) ==
    [phase |-> "created",
     self |-> self,
     T |-> T,
     json_body |-> Absent,
     http_client |-> Absent,
     response |-> Absent,
     result |-> Absent]

\* the requests the callers built
PairRequests ==
    { new,
      change_cluster(add_value(change_id(add_method(new, "GetBalance"), 7),
                               JStr("11111111111111111111111111111111")), "MainNetBeta"),
      add_extra(add_method(new, "GetBlock"), "encoding", JStr("base64")),
      change_id(add_method(new, "GetBlockHeight"), 7) }

\* what the nodes answer: either status line, either set of headers, and a
\* success envelope, a protocol error envelope or a body of neither shape, all
\* with id 7; or bytes that are not UTF-8
PairHeaders ==
    { Headers, << <<"content-type", "text/plain">>, <<"x-rpc-node", "b">> >> }

PairBodies ==
    { [form |-> "object",
       members |-> << <<"jsonrpc", JStr("2.0")>>, <<"id", JNum(7)>>, <<"result", JNum(5)>> >>],
      [form |-> "object",
       members |-> << <<"jsonrpc", JStr("2.0")>>, <<"id", JNum(7)>>,
                      <<"error", ErrorObject(-32602, FALSE)>> >>],
      [form |-> "object", members |-> << <<"not", JStr("recognized")>> >>] }

PairResponses ==
    { [Response(l, Utf8Bytes(b)) EXCEPT !.headers = h] :
        l \in StatusLines, h \in PairHeaders, b \in PairBodies }
    \cup { Response([status_code |-> 200, reason_phrase |-> "OK"],
                    BrokenBytes([form |-> "object", members |-> <<>>],
                                [valid_up_to |-> 0, error_len |-> 1])) }

PairSendErrors == { [kind |-> "AddressNotFound"], TimedOut }

ConcInit ==
    /\ phase = "side by side"
    /\ futures \in [CallIds -> { Future(r, T) : r \in PairRequests, T \in PayloadTypes }]
    /\ DiscIdle
    /\ BuildIdle
    /\ ErrIdle
    /\ CallIdle

\* (mutant) the envelope is written to one buffer all calls share: a call
\* that finds it written sends what is there
PollSendShared(i) ==
    LET f == futures[i]
        written == { j \in CallIds : futures[j].json_body # Absent }
        json == IF written = {} THEN Envelope(f.self)
                ELSE futures[CHOOSE j \in written : TRUE].json_body
    IN  /\ f.phase = "created"
        /\ futures' = [futures EXCEPT ![i] =
                          [f EXCEPT !.json_body = json,
                                    !.http_client = HttpClient(f.self, json),
                                    !.phase = "awaiting"]]
        /\ UNCHANGED <<phase, discVars, buildVars, errVars, callVars>>

\* request, lines 74-106, on the first poll of future i: the envelope is
\* written, the POST prepared and http_client.send() handed to the blocking pool
PollSend(i) ==
    LET f == futures[i]
    IN  /\ f.phase = "created"
        /\ futures' = [futures EXCEPT ![i] =
                          [f EXCEPT !.json_body = Envelope(f.self),
                                    !.http_client = HttpClient(f.self, Envelope(f.self)),
                                    !.phase = "awaiting"]]
        /\ UNCHANGED <<phase, discVars, buildVars, errVars, callVars>>

\* the exchange of future i ends with a response, on its own pool thread
Responds(i) ==
    /\ futures[i].phase = "awaiting"
    /\ \E r \in PairResponses :
          futures' = [futures EXCEPT ![i].response = Ok(r), ![i].phase = "completed"]
    /\ UNCHANGED <<phase, discVars, buildVars, errVars, callVars>>

\* the exchange of future i ends with a transport error
Fails(i) ==
    /\ futures[i].phase = "awaiting"
    /\ \E e \in PairSendErrors :
          futures' = [futures EXCEPT ![i].response = Err(e), ![i].phase = "completed"]
    /\ UNCHANGED <<phase, discVars, buildVars, errVars, callVars>>

\* request, lines 106-108, on the poll that finds the exchange of future i
\* ended: `?` returns the error, unified, or self.method.parse(response) runs
\* (parse awaits nothing) and what it returns is returned
PollParse(i) ==
    LET f == futures[i]
    IN  /\ f.phase = "completed"
        /\ futures' = [futures EXCEPT ![i] =
                          [f EXCEPT !.result = IF f.response.tag = "Err"
                                               THEN Err(From(f.response.e))
                                               ELSE parse(f.self.method, f.T, f.response.v),
                                    !.phase = "returned"]]
        /\ UNCHANGED <<phase, discVars, buildVars, errVars, callVars>>

ConcNext ==
    \E i \in CallIds :
        \/ PollSend(i)
        \/ Responds(i)
        \/ Fails(i)
        \/ PollParse(i)

SpecConc == ConcInit /\ [][ConcNext]_vars

\* what a call of request::<T>(self) returns when it runs alone and its
\* exchange gives `sent`: the steps of request and parse, one after the other
RunAlone(self, T, sent) ==
    IF sent.tag = "Err" THEN Err(From(sent.e))
    ELSE IF as_str(sent.v).tag = "Err" THEN Err(From(as_str(sent.v).e))
    ELSE IF is_ok_or(self.method, T, as_str(sent.v).v).tag = "Err"
         THEN is_ok_or(self.method, T, as_str(sent.v).v)
    ELSE Ok(build_http_response(self.method, sent.v, is_ok_or(self.method, T, as_str(sent.v).v).v))

HasReturned(i) == futures[i].phase = "returned"

\* each call works on its own request: its envelope and its POST are made of
\* its own fields, and what it returns is what it would return alone
ConcShape ==
    \A i \in CallIds :
        LET f == futures[i]
        IN  /\ f.phase = "created" =>
                  f.json_body = Absent /\ f.http_client = Absent
            /\ f.phase # "created" =>
                  /\ f.json_body = Envelope(f.self)
                  /\ f.http_client = HttpClient(f.self, Envelope(f.self))
                  /\ f.http_client.url = url(f.self.cluster)
            /\ f.phase \in {"created", "awaiting"} <=> f.response = Absent
            /\ f.result # Absent <=> f.phase = "returned"
            /\ HasReturned(i) => f.result = RunAlone(f.self, f.T, f.response)

\* a step is a step of one call and leaves the other call as it was; a call
\* keeps its request, its envelope once written, its response once received
ConcStep ==
    \A i \in CallIds :
        /\ futures'[i] # futures[i] => \A j \in CallIds \ {i} : futures'[j] = futures[j]
        /\ futures'[i].self = futures[i].self
        /\ futures'[i].T = futures[i].T
        /\ futures[i].json_body # Absent => futures'[i].json_body = futures[i].json_body
        /\ futures[i].response # Absent => futures'[i].response = futures[i].response
        /\ HasReturned(i) => futures'[i] = futures[i]

\* C12: of two calls running side by side, under every interleaving of their
\* steps and whichever completes first, each writes the envelope of its own
\* request, posts it to the URL of its own cluster and returns what it would
\* return running alone on its own response; no step of one call changes
\* anything of the other.
C12_Independent ==
    /\ []ConcShape
    /\ [][ConcStep]_vars

\* the second call has returned a Success while the first, with another
\* request, is still waiting for its exchange
C12_Witness ==
    /\ futures[1].phase = "awaiting"
    /\ futures[1].self = new
    /\ futures[1].json_body = Envelope(new)
    /\ HasReturned(2)
    /\ futures[2].self.method = "GetBalance"
    /\ futures[2].json_body # futures[1].json_body
    /\ futures[2].http_client.url = "https://api.mainnet-beta.solana.com"
    /\ futures[2].result.tag = "Ok"
    /\ futures[2].result.v.body.variant = "Success"

\* the response of call i was received and its body is a text
GaveText(i) ==
    /\ futures[i].response # Absent
    /\ futures[i].response.tag = "Ok"
    /\ futures[i].response.v.body.utf8_error = Absent

TextOf(i) == futures[i].response.v.body.text

\* what the call decoded: the outcome inside the HttpResponse, or the error
DecodedOf(i) ==
    IF futures[i].result.tag = "Ok" THEN futures[i].result.v.body ELSE futures[i].result.e

\* C15: what parse decodes depends on the body text and T alone: two calls
\* given the same body and T decode the same Success, InvalidJson or decode
\* error, whatever their methods, the identifiers of their requests, the status
\* codes and the headers of their responses; each body is decoded by the
\* two-phase rule (success shape, else error shape, else decode error) even
\* when its id is not the request's or the status is not 2xx; and no call
\* returns UnsupportedSolanaRpcMethod.
C15_BodyAlone ==
    /\ \A i, j \in CallIds :
          /\ HasReturned(i) /\ HasReturned(j)
          /\ GaveText(i) /\ GaveText(j)
          /\ TextOf(i) = TextOf(j)
          /\ futures[i].T = futures[j].T
          => DecodedOf(i) = DecodedOf(j)
    /\ \A i \in CallIds :
          HasReturned(i) =>
              /\ futures[i].result # Err(UnsupportedSolanaRpcMethod)
              /\ GaveText(i) =>
                    /\ SuccessShaped(futures[i].T, TextOf(i)) =>
                          /\ futures[i].result.tag = "Ok"
                          /\ DecodedOf(i).variant = "Success"
                          /\ futures[i].result.v.status_code = futures[i].response.v.status_code
                          /\ futures[i].result.v.headers = futures[i].response.v.headers
                    /\ ErrorShaped(TextOf(i)) /\ ~SuccessShaped(futures[i].T, TextOf(i)) =>
                          /\ futures[i].result.tag = "Ok"
                          /\ DecodedOf(i).variant = "InvalidJson"
                    /\ ~ErrorShaped(TextOf(i)) /\ ~SuccessShaped(futures[i].T, TextOf(i)) =>
                          /\ futures[i].result.tag = "Err"
                          /\ DecodedOf(i).variant = "SerdeJsonDeser"

\* the same success envelope with id 7, answered with status 200 to
\* GetAccountInfo with request id 1 and with status 500 and other headers to
\* GetBlockHeight with request id 7: the same Success
C15_Witness ==
    /\ HasReturned(1) /\ HasReturned(2)
    /\ GaveText(1) /\ GaveText(2)
    /\ TextOf(1) = TextOf(2)
    /\ futures[1].T = futures[2].T
    /\ futures[1].self.method = "GetAccountInfo" /\ futures[1].self.id = 1
    /\ futures[2].self.method = "GetBlockHeight" /\ futures[2].self.id = 7
    /\ futures[1].response.v.status_code = 200
    /\ futures[2].response.v.status_code = 500
    /\ futures[1].response.v.headers # futures[2].response.v.headers
    /\ DecodedOf(1).variant = "Success"
    /\ DecodedOf(1).body.id = RInt("u8", 7)
    /\ DecodedOf(1) = DecodedOf(2)

====
